---------------------------- MODULE Spec2Model ----------------------------
(***************************************************************************)
(* dos2unix-r: line-ending conversion (src/lib.rs, src/main.rs,            *)
(* src/bin/unix2dos.rs).                                                   *)
(*                                                                         *)
(* Bytes are integers 0..255, byte strings are sequences of them.          *)
(* The state machines of the module:                                       *)
(*   SpecConv   applies the conversion functions to inputs drawn from a    *)
(*              bounded set (once, twice, and chunk by chunk);             *)
(*   Spec       runs one file conversion step by step against a small file *)
(*              system, every file-system call being able to fail;         *)
(*   SpecDetect applies the encoding and BOM detector to a byte source;    *)
(*   SpecBatch  runs the program over a list of inputs, each file          *)
(*              converted by the steps of Spec;                            *)
(*   SpecPar    runs two conversions of two files with their steps         *)
(*              interleaved;                                               *)
(*   SpecCount  counts the line endings of a byte source, byte by byte.    *)
(***************************************************************************)
EXTENDS Integers, Sequences, FiniteSets, TLC

\* ------------------------------------------------------------------ bytes
LF == 10
CR == 13
TAB == 9
FF == 12
NUL == 0
SOH == 1
LetterA == 97
BOM0 == 239
BOM1 == 187
BOM2 == 191

Utf8Bom == <<BOM0, BOM1, BOM2>>

\* ----------------------------------------------------------------- bounds
\* longest body of an input byte string (a BOM may precede it)
MaxLen == 4
\* largest read-buffer size of the streaming loop (8192 in the program)
MaxChunk == 3

\* the bytes inputs are made of: the two terminators, a text byte, a control
\* marker and the NUL byte
Alphabet == {LF, CR, LetterA, SOH, NUL}

SeqsUpTo(S, n) == UNION {[1..k -> S] : k \in 0..n}

Bodies == SeqsUpTo(Alphabet, MaxLen)

\* inputs of the conversion functions: a body, or the UTF-8 BOM and a body
Inputs == Bodies \cup {Utf8Bom \o b : b \in SeqsUpTo(Alphabet, MaxLen - 2)}

Drop(s, n) == SubSeq(s, n + 1, Len(s))
Take(s, n) == SubSeq(s, 1, n)
StartsWith(s, p) == Len(s) >= Len(p) /\ Take(s, Len(p)) = p

\* ------------------------------------------------- main.rs: dos2unix, unix2dos
RECURSIVE dos2unixFrom(_, _)
dos2unixFrom(input, i) ==
    IF i > Len(input) THEN <<>>
    ELSE LET byte == input[i]
             peek == IF i + 1 <= Len(input) THEN input[i + 1] ELSE -1
         IN  (IF byte # CR \/ peek # LF THEN <<byte>> ELSE <<>>)
                 \o dos2unixFrom(input, i + 1)

\* a dos2unix that drops every CR, also one no LF follows
dos2unixDropsEveryCR(input) == SelectSeq(input, LAMBDA b : b # CR)

\* a dos2unix that holds a CR ending its input back for a following LF and
\* never writes it
dos2unixHoldsBackLastCR(input) ==
    IF input # <<>> /\ input[Len(input)] = CR
    THEN dos2unixFrom(SubSeq(input, 1, Len(input) - 1), 1)
    ELSE dos2unixFrom(input, 1)

dos2unix(input) == dos2unixFrom(input, 1)

RECURSIVE unix2dosFrom(_, _)
unix2dosFrom(input, i) ==
    IF i > Len(input) THEN <<>>
    ELSE LET byte == input[i]
         IN  (IF byte = LF THEN <<CR>> ELSE <<>>) \o <<byte>>
                 \o unix2dosFrom(input, i + 1)

unix2dos(input) == unix2dosFrom(input, 1)

\* -------------------------------------------------------- lib.rs: detect_binary
\* Option<u8>::None
NoByte == -1

IsControlMarker(byte) ==
    byte < 32 /\ byte # LF /\ byte # CR /\ byte # TAB /\ byte # FF

\* Ok(()) is [ok |-> TRUE]; Err carries the byte and the line of the message
RECURSIVE detect_binaryFrom(_, _, _, _)
detect_binaryFrom(content, force, i, line_number) ==
    IF i > Len(content) THEN [ok |-> TRUE, byte |-> NoByte, line |-> 0]
    ELSE LET byte == content[i]
         IN  IF IsControlMarker(byte)
             THEN IF ~force
                  THEN [ok |-> FALSE, byte |-> byte, line |-> line_number]
                  ELSE [ok |-> TRUE, byte |-> NoByte, line |-> 0]
             ELSE detect_binaryFrom(content, force, i + 1,
                      IF byte = LF THEN line_number + 1 ELSE line_number)

\* a detect_binary that numbers the lines from 0
detect_binaryZeroBased(content, force) == detect_binaryFrom(content, force, 1, 0)

detect_binary(content, force) == detect_binaryFrom(content, force, 1, 1)

\* ------------------------------------------------- lib.rs: convert_line_endings
Modes == {"ToUnix", "ToDos", "ToMac"}

\* a ToUnix step that never looks ahead: CR LF stays CR LF
ToUnixStepNoCollapse(content, idx1, byte) == [push |-> <<byte>>, skip |-> 0]

\* a ToUnix step that takes the byte after a CR for its LF without looking
ToUnixStepSkipsAfterCR(content, idx1, byte) ==
    IF byte = CR THEN [push |-> <<LF>>, skip |-> 1]
    ELSE [push |-> <<byte>>, skip |-> 0]

\* what one iteration pushes under ToUnix for `byte`, and whether it also
\* consumes the byte after it (idx1 is the index of that byte, 0-based)
ToUnixStep(content, idx1, byte) ==
    IF byte = CR
    THEN IF idx1 < Len(content) /\ content[idx1 + 1] = LF
         THEN [push |-> <<LF>>, skip |-> 1]
         ELSE [push |-> <<CR>>, skip |-> 0]
    ELSE [push |-> <<byte>>, skip |-> 0]

\* what one iteration pushes under ToDos
ToDosStep(byte, prev_byte) ==
    IF byte = LF
    THEN (IF prev_byte # CR THEN <<CR>> ELSE <<>>) \o <<LF>>
    ELSE <<byte>>

\* a ToMac step that forgets prev_byte: the LF of a CR LF pair becomes CR too
ToMacStepEveryLF(byte, prev_byte) == IF byte = LF THEN <<CR>> ELSE <<byte>>

\* what one iteration pushes under ToMac
ToMacStep(byte, prev_byte) ==
    IF byte = LF
    THEN IF prev_byte # CR THEN <<CR>> ELSE <<LF>>
    ELSE <<byte>>

\* the while loop; idx is the 0-based index of the code, prev_byte the byte of
\* the previous iteration (NoByte before the first)
RECURSIVE ConvertLoop(_, _, _, _, _)
ConvertLoop(content, idx, prev_byte, conversion_mode, result) ==
    IF ~(idx < Len(content)) THEN [result |-> result, prev_byte |-> prev_byte]
    ELSE LET byte == content[idx + 1]
             idx1 == idx + 1
         IN  CASE conversion_mode = "ToUnix" ->
                    LET st == ToUnixStep(content, idx1, byte)
                    IN  ConvertLoop(content, idx1 + st.skip, byte, conversion_mode,
                                    result \o st.push)
               [] conversion_mode = "ToDos" ->
                    ConvertLoop(content, idx1, byte, conversion_mode,
                                result \o ToDosStep(byte, prev_byte))
               [] conversion_mode = "ToMac" ->
                    ConvertLoop(content, idx1, byte, conversion_mode,
                                result \o ToMacStep(byte, prev_byte))

\* the terminator appended for add_eol
EolOf(conversion_mode) ==
    CASE conversion_mode = "ToUnix" -> <<LF>>
      [] conversion_mode = "ToDos" -> <<CR, LF>>
      [] conversion_mode = "ToMac" -> <<CR>>

\* an add_eol that does not look at the last byte
AddEolAlways(loop, conversion_mode, add_eol) ==
    IF add_eol THEN loop.result \o EolOf(conversion_mode) ELSE loop.result

AddEol(loop, conversion_mode, add_eol) ==
    IF add_eol /\ loop.prev_byte # NoByte
              /\ loop.prev_byte # LF /\ loop.prev_byte # CR
    THEN loop.result \o EolOf(conversion_mode)
    ELSE loop.result

\* Ok(result) is [ok |-> TRUE, out |-> result]; Err is detect_binary's
convert_line_endings(content, keep_bom, force, conversion_mode, add_eol) ==
    LET hasBom == StartsWith(content, Utf8Bom)
        result0 == IF hasBom /\ keep_bom THEN Utf8Bom ELSE <<>>
        idx0 == IF hasBom THEN 3 ELSE 0
        bin == detect_binary(Drop(content, idx0), force)
    IN  IF ~bin.ok
        THEN [ok |-> FALSE, out |-> <<>>, byte |-> bin.byte, line |-> bin.line]
        ELSE [ok |-> TRUE,
              out |-> AddEol(ConvertLoop(content, idx0, NoByte, conversion_mode,
                                         result0),
                             conversion_mode, add_eol),
              byte |-> NoByte, line |-> 0]

\* ======================================================================
\* The conversion functions as a state machine: an input is drawn, a
\* conversion is applied to it, a second one to the result; or the input is
\* streamed through a main.rs conversion chunk by chunk.
\* ======================================================================
VARIABLES
    cInput,     \* the input byte string
    cStage,     \* "init" | "once" | "twice" | "streaming" | "streamed"
    cFn,        \* the conversion applied first (or streamed)
    cOpts,      \* keep_bom, force, add_eol of the lib.rs conversions
    cRes1,      \* result of the first application
    cFn2,       \* the conversion applied second
    cRes2,      \* result of the second application
    sBuf,       \* size of the read buffer of the streaming loop
    sPos,       \* bytes of the input read so far
    sOut        \* bytes written by the streaming loop so far

convVars == <<cInput, cStage, cFn, cOpts, cRes1, cFn2, cRes2, sBuf, sPos, sOut>>

\* the file system and the conversions running against it (used further down)
VARIABLES
    fs,     \* the file system
    pc,     \* where each worker's conversion stands
    job,    \* each worker's conversion: its arguments and locals
    ret     \* what each worker's conversion returned

fileVars == <<fs, pc, job, ret>>

\* the encoding and BOM detector applied to a byte source (used further down)
VARIABLES
    dSource,    \* the bytes of the source
    dEncoding,  \* specified_encoding
    dStage,     \* "init" | "detected"
    dRes        \* what detect_encoding_and_bom returned

detVars == <<dSource, dEncoding, dStage, dRes>>

\* a run of the program over a list of inputs (used further down)
VARIABLES
    bEntry,     \* "dos2unix" (main.rs) | "unix2dos" (bin/unix2dos.rs)
    bOpts,      \* the options of the run
    bInputs,    \* the inputs named on the command line
    bIdx,       \* the input the top-level loop stands at
    bWalk,      \* the entries the directory walk has still to yield
    bLog,       \* per attempted file, what its conversion returned
    bProc       \* "running" | "walking" | "exited" | "panicked"

batchVars == <<bEntry, bOpts, bInputs, bIdx, bWalk, bLog, bProc>>

\* count_line_endings (main.rs): the reader and the locals of the function
VARIABLES
    reader,       \* the bytes of the source
    rPos,         \* bytes the iterator has handed out
    dos_count,
    unix_count,
    mac_count,
    last_char,
    rStage        \* "off" | "counting" | "counted" | "failed"

countVars == <<reader, rPos, dos_count, unix_count, mac_count, last_char, rStage>>

auxVars == <<detVars, batchVars, countVars>>
vars == <<convVars, fileVars, auxVars>>

\* the value of dRes before the detector has run
NoDetection == [ok |-> FALSE, encoding |-> "none", bom_size |-> 0]
\* the value of bOpts outside a run
NoBatchOpts ==
    [to_dos |-> FALSE, keep_date |-> FALSE, backup |-> FALSE, force |-> FALSE,
     keep_bom |-> FALSE, remove_bom |-> FALSE, from_encoding |-> "auto",
     conversion_mode |-> "ToUnix", add_eol |-> FALSE, recursive |-> FALSE]

MainFns == {"dos2unix", "unix2dos"}
Fns == MainFns \cup Modes
Options == [keep_bom : BOOLEAN, force : BOOLEAN, add_eol : BOOLEAN]
NoOpts == [keep_bom |-> FALSE, force |-> FALSE, add_eol |-> FALSE]
NoRes == [ok |-> FALSE, out |-> <<>>, byte |-> NoByte, line |-> 0]
Ok(out) == [ok |-> TRUE, out |-> out, byte |-> NoByte, line |-> 0]

\* convert_fn of main.rs (a function value: dos2unix or unix2dos)
convert_fn(f, bytes) ==
    IF f = "dos2unix" THEN dos2unix(bytes) ELSE unix2dos(bytes)

ApplyFn(f, content, o) ==
    IF f \in MainFns
    THEN Ok(convert_fn(f, content))
    ELSE convert_line_endings(content, o.keep_bom, o.force, f, o.add_eol)

ConvInit ==
    /\ cInput \in Inputs
    /\ cStage = "init"
    /\ cFn = "none" /\ cFn2 = "none"
    /\ cOpts = NoOpts
    /\ cRes1 = NoRes /\ cRes2 = NoRes
    /\ sBuf = 0 /\ sPos = 0 /\ sOut = <<>>
    /\ fs = <<>>
    /\ pc = <<>> /\ job = <<>> /\ ret = <<>>
    /\ dSource = <<>> /\ dEncoding = "auto" /\ dStage = "off" /\ dRes = NoDetection
    /\ bEntry = "none" /\ bOpts = NoBatchOpts /\ bInputs = <<>> /\ bIdx = 0
    /\ bWalk = <<>> /\ bLog = <<>> /\ bProc = "off"
    /\ reader = <<>> /\ rPos = 0 /\ last_char = 0 /\ rStage = "off"
    /\ dos_count = 0 /\ unix_count = 0 /\ mac_count = 0

\* one call of a conversion on the whole input
Apply ==
    /\ cStage = "init"
    /\ UNCHANGED <<fileVars, auxVars>>
    /\ \E f \in Fns, o \in Options :
          /\ (f \in MainFns => o = NoOpts)
          /\ cFn' = f
          /\ cOpts' = o
          /\ cRes1' = ApplyFn(f, cInput, o)
    /\ cStage' = "once"
    /\ UNCHANGED <<cInput, cFn2, cRes2, sBuf, sPos, sOut>>

\* a second call, on the output of the first, with the same options
ApplyAgain ==
    /\ cStage = "once"
    /\ UNCHANGED <<fileVars, auxVars>>
    /\ cRes1.ok
    /\ \E f \in Fns :
          /\ cFn2' = f
          /\ cRes2' = ApplyFn(f, cRes1.out, cOpts)
    /\ cStage' = "twice"
    /\ UNCHANGED <<cInput, cFn, cOpts, cRes1, sBuf, sPos, sOut>>

\* convert_large_file, the read loop: the buffer size is fixed before the loop
StreamStart ==
    /\ cStage = "init"
    /\ UNCHANGED <<fileVars, auxVars>>
    /\ \E f \in MainFns, n \in 1..MaxChunk :
          /\ cFn' = f
          /\ sBuf' = n
    /\ cStage' = "streaming"
    /\ UNCHANGED <<cInput, cOpts, cRes1, cFn2, cRes2, sPos, sOut>>

\* one iteration with bytes_read > 0: convert the chunk alone, write it
StreamChunk ==
    /\ cStage = "streaming"
    /\ UNCHANGED <<fileVars, auxVars>>
    /\ sPos < Len(cInput)
    /\ LET bytes_read == IF Len(cInput) - sPos < sBuf THEN Len(cInput) - sPos
                                                      ELSE sBuf
           chunk == SubSeq(cInput, sPos + 1, sPos + bytes_read)
       IN  /\ sOut' = sOut \o convert_fn(cFn, chunk)
           /\ sPos' = sPos + bytes_read
    /\ UNCHANGED <<cInput, cStage, cFn, cOpts, cRes1, cFn2, cRes2, sBuf>>

\* the iteration with bytes_read = 0: break
StreamEof ==
    /\ cStage = "streaming"
    /\ UNCHANGED <<fileVars, auxVars>>
    /\ sPos = Len(cInput)
    /\ cStage' = "streamed"
    /\ UNCHANGED <<cInput, cFn, cOpts, cRes1, cFn2, cRes2, sBuf, sPos, sOut>>

ConvNext == Apply \/ ApplyAgain \/ StreamStart \/ StreamChunk \/ StreamEof


\* ======================================================================
\* One file conversion, step by step, against a file system.
\* main.rs: convert_file, convert_large_file; lib.rs: process_file.
\* ======================================================================
\* bytes is_binary looks at (8000 in the program)
BinaryCheckBytes == 2
\* longest body of a file's content (a BOM may precede it)
MaxFileLen == 2

\* ------------------------------------------------------------------ paths
\* a path is its file stem and its extension ("" when it has none)
Path(stem, ext) == [stem |-> stem, ext |-> ext]
NoPath == Path("", "")
\* Path::with_extension
with_extension(p, ext) == [p EXCEPT !.ext = ext]
\* format!("{}~", path): the tilde ends the extension, or the stem without one
Tilde(p) ==
    IF p.ext = "" THEN [p EXCEPT !.stem = p.stem \o "~"]
    ELSE [p EXCEPT !.ext = p.ext \o "~"]

\* ------------------------------------------------------------ file system
\* the file system is a function from the paths that exist to their bytes
Exists(f, p) == p \in DOMAIN f
FsWrite(f, p, bytes) ==
    [q \in DOMAIN f \cup {p} |-> IF q = p THEN bytes ELSE f[q]]
FsRemove(f, p) == [q \in DOMAIN f \ {p} |-> f[q]]
FsRename(f, from, to) ==
    IF from = to THEN f ELSE FsRemove(FsWrite(f, to, f[from]), from)
FsCopy(f, from, to) == FsWrite(f, to, f[from])
Prefixes(bytes) == {Take(bytes, k) : k \in 0..(Len(bytes) - 1)}

\* ---------------------------------------- main.rs: detection, decoding, gate
get_encoding(encoding) ==
    CASE encoding = "utf8" -> "UTF_8"
      [] encoding = "utf16le" -> "UTF_16LE"
      [] encoding = "utf16be" -> "UTF_16BE"
      [] encoding = "iso-8859-1" -> "WINDOWS_1252"
      [] OTHER -> "UTF_8"

\* the 4-byte buffer after reader.read: the bytes read, then zeroes
ReadBuffer(source) ==
    [i \in 1..4 |-> IF i <= Len(source) THEN source[i] ELSE 0]

\* a detector with the two UTF-16 arms exchanged
detect_encoding_and_bomSwapsUtf16(source, specified_encoding) ==
    IF specified_encoding # "auto"
    THEN [ok |-> TRUE, encoding |-> get_encoding(specified_encoding), bom_size |-> 0]
    ELSE LET read_bytes == IF Len(source) < 4 THEN Len(source) ELSE 4
             buffer == ReadBuffer(source)
         IN  CASE read_bytes \in 3..4 /\ StartsWith(buffer, Utf8Bom) ->
                    [ok |-> TRUE, encoding |-> "UTF_8", bom_size |-> 3]
               [] read_bytes \in 2..4 /\ StartsWith(buffer, <<254, 255>>) ->
                    [ok |-> TRUE, encoding |-> "UTF_16LE", bom_size |-> 2]
               [] read_bytes \in 2..4 /\ StartsWith(buffer, <<255, 254>>) ->
                    [ok |-> TRUE, encoding |-> "UTF_16BE", bom_size |-> 2]
               [] read_bytes = 0 ->
                    [ok |-> FALSE, encoding |-> "UTF_8", bom_size |-> 0]
               [] OTHER -> [ok |-> TRUE, encoding |-> "UTF_8", bom_size |-> 0]

\* a detector without the arm for read_bytes = 0: an empty source falls
\* through to the default
detect_encoding_and_bomNoEmptyArm(source, specified_encoding) ==
    IF specified_encoding # "auto"
    THEN [ok |-> TRUE, encoding |-> get_encoding(specified_encoding), bom_size |-> 0]
    ELSE LET read_bytes == IF Len(source) < 4 THEN Len(source) ELSE 4
             buffer == ReadBuffer(source)
         IN  CASE read_bytes \in 3..4 /\ StartsWith(buffer, Utf8Bom) ->
                    [ok |-> TRUE, encoding |-> "UTF_8", bom_size |-> 3]
               [] read_bytes \in 2..4 /\ StartsWith(buffer, <<255, 254>>) ->
                    [ok |-> TRUE, encoding |-> "UTF_16LE", bom_size |-> 2]
               [] read_bytes \in 2..4 /\ StartsWith(buffer, <<254, 255>>) ->
                    [ok |-> TRUE, encoding |-> "UTF_16BE", bom_size |-> 2]
               [] OTHER -> [ok |-> TRUE, encoding |-> "UTF_8", bom_size |-> 0]

\* Err(UnexpectedEof) is [ok |-> FALSE]
detect_encoding_and_bom(source, specified_encoding) ==
    IF specified_encoding # "auto"
    THEN [ok |-> TRUE, encoding |-> get_encoding(specified_encoding), bom_size |-> 0]
    ELSE LET read_bytes == IF Len(source) < 4 THEN Len(source) ELSE 4
             buffer == ReadBuffer(source)
         IN  CASE read_bytes \in 3..4 /\ StartsWith(buffer, Utf8Bom) ->
                    [ok |-> TRUE, encoding |-> "UTF_8", bom_size |-> 3]
               [] read_bytes \in 2..4 /\ StartsWith(buffer, <<255, 254>>) ->
                    [ok |-> TRUE, encoding |-> "UTF_16LE", bom_size |-> 2]
               [] read_bytes \in 2..4 /\ StartsWith(buffer, <<254, 255>>) ->
                    [ok |-> TRUE, encoding |-> "UTF_16BE", bom_size |-> 2]
               [] read_bytes = 0 ->
                    [ok |-> FALSE, encoding |-> "UTF_8", bom_size |-> 0]
               [] OTHER -> [ok |-> TRUE, encoding |-> "UTF_8", bom_size |-> 0]

\* DecodeReaderBytesBuilder::new().encoding(Some(UTF_8)): the decoder is made
\* with BOM removal, so a leading UTF-8 BOM is not part of what is read; the
\* rest of well-formed UTF-8 is read as it is (the model's files are well-formed)
Decode(encoding, bytes) ==
    IF encoding = "UTF_8" /\ StartsWith(bytes, Utf8Bom) THEN Drop(bytes, 3)
    ELSE bytes

\* String::from_utf8_lossy then UTF_8.encode: what the decoder gave is
\* well-formed UTF-8 and convert_fn only adds or drops CR, so nothing is replaced
Encode(encoding, bytes) == bytes

is_binary(content) ==
    LET check_size == IF Len(content) < BinaryCheckBytes THEN Len(content)
                      ELSE BinaryCheckBytes
    IN  \E i \in 1..check_size : content[i] = NUL

Workers == {"w1"}

\* a file's content: a body, or the UTF-8 BOM and a body of text
FileContents ==
    SeqsUpTo(Alphabet, MaxFileLen)
        \cup {Utf8Bom \o b : b \in SeqsUpTo({LF, LetterA}, MaxFileLen + 1)}
InputPaths == {Path("a", "txt"), Path("a", "tmp")}
\* Some(output_path) of process_file's callers (-n INFILE OUTFILE)
OutputPaths == {Path("b", "txt"), Path("a", "txt")}

\* Opt of main.rs; a conversion_mode and add_eol for process_file of lib.rs
MainOpts ==
    [to_dos : BOOLEAN, keep_date : BOOLEAN, backup : BOOLEAN, force : BOOLEAN,
     keep_bom : BOOLEAN, remove_bom : BOOLEAN, from_encoding : {"auto", "utf8"},
     conversion_mode : {"ToUnix"}, add_eol : {FALSE}]
LibOpts ==
    [to_dos : {FALSE}, keep_date : {FALSE}, backup : BOOLEAN, force : BOOLEAN,
     keep_bom : BOOLEAN, remove_bom : {FALSE}, from_encoding : {"auto"},
     conversion_mode : Modes, add_eol : BOOLEAN]

NoRet == [ok |-> FALSE, kind |-> "none", byte |-> NoByte, line |-> 0]
RetOk(kind) == [ok |-> TRUE, kind |-> kind, byte |-> NoByte, line |-> 0]
RetErr(kind) == [ok |-> FALSE, kind |-> kind, byte |-> NoByte, line |-> 0]

NoFileOpts ==
    [to_dos |-> FALSE, keep_date |-> FALSE, backup |-> FALSE, force |-> FALSE,
     keep_bom |-> FALSE, remove_bom |-> FALSE, from_encoding |-> "auto",
     conversion_mode |-> "ToUnix", add_eol |-> FALSE]

IdleJob ==
    [entry |-> "none", input |-> NoPath, output |-> NoPath, temp |-> NoPath,
     opts |-> NoFileOpts, large |-> FALSE, fn |-> "none",
     fs0 |-> <<>>, orig |-> <<>>, encoding |-> "UTF_8", bom_size |-> 0,
     content |-> <<>>, converted |-> <<>>, rest |-> <<>>, buf |-> 0]

\* one file with some content; nothing else in the directory
FileInit ==
    /\ \E p \in InputPaths, bytes \in FileContents : fs = (p :> bytes)
    /\ pc = [w \in Workers |-> "idle"]
    /\ job = [w \in Workers |-> IdleJob]
    /\ ret = [w \in Workers |-> NoRet]
    /\ cInput = <<>> /\ cStage = "off"
    /\ cFn = "none" /\ cFn2 = "none"
    /\ cOpts = NoOpts
    /\ cRes1 = NoRes /\ cRes2 = NoRes
    /\ sBuf = 0 /\ sPos = 0 /\ sOut = <<>>
    /\ dSource = <<>> /\ dEncoding = "auto" /\ dStage = "off" /\ dRes = NoDetection
    /\ bEntry = "none" /\ bOpts = NoBatchOpts /\ bInputs = <<>> /\ bIdx = 0
    /\ bWalk = <<>> /\ bLog = <<>> /\ bProc = "off"
    /\ reader = <<>> /\ rPos = 0 /\ last_char = 0 /\ rStage = "off"
    /\ dos_count = 0 /\ unix_count = 0 /\ mac_count = 0

\* the conversion ends: it returns r
Return(w, r) ==
    /\ pc' = [pc EXCEPT ![w] = "done"]
    /\ ret' = [ret EXCEPT ![w] = r]

Goto(w, label) ==
    /\ pc' = [pc EXCEPT ![w] = label]
    /\ UNCHANGED ret

\* a slice out of range: the thread panics and the process ends where it is
Panic(w) ==
    /\ pc' = [pc EXCEPT ![w] = "panicked"]
    /\ UNCHANGED ret

\* --------------------------------------------------- starting a conversion
\* main.rs process_file: convert_file(path, opt, unix2dos | dos2unix).
\* Whether metadata.len() exceeds the 10 MB threshold is drawn with the call:
\* the model's short byte strings stand for files of either size.
StartConvertFile(w) ==
    /\ pc[w] = "idle"
    /\ UNCHANGED <<convVars, auxVars>>
    /\ \E input \in DOMAIN fs, o \in MainOpts, large \in BOOLEAN :
          job' = [job EXCEPT ![w] =
                     [IdleJob EXCEPT !.entry = "convert_file", !.input = input,
                                     !.output = input, !.opts = o, !.large = large,
                                     !.fn = IF o.to_dos THEN "unix2dos" ELSE "dos2unix",
                                     !.fs0 = fs, !.orig = fs[input]]]
    /\ Goto(w, "cf_open")
    /\ UNCHANGED fs

\* lib.rs process_file(input_path, output_path, ...), as unix2dos.rs calls it
\* with None or Some(outfile)
StartProcessFile(w) ==
    /\ pc[w] = "idle"
    /\ UNCHANGED <<convVars, auxVars>>
    /\ \E input \in DOMAIN fs, o \in LibOpts, output \in {NoPath} \cup OutputPaths :
          job' = [job EXCEPT ![w] =
                     [IdleJob EXCEPT !.entry = "process_file", !.input = input,
                                     !.output = IF output = NoPath THEN input ELSE output,
                                     !.opts = o, !.fn = o.conversion_mode,
                                     !.fs0 = fs, !.orig = fs[input]]]
    /\ Goto(w, "pf_read")
    /\ UNCHANGED fs

\* ------------------------------------------------------ main.rs convert_file
\* File::open(input)?, input_file.metadata()?, the size threshold
CfOpen(w) ==
    /\ pc[w] = "cf_open"
    /\ UNCHANGED <<convVars, auxVars>>
    /\ \/ /\ Exists(fs, job[w].input)
          /\ Goto(w, IF job[w].large THEN "lf_detect" ELSE "cf_read")
       \/ Return(w, RetErr("open"))
    /\ UNCHANGED <<fs, job>>

\* detect_encoding_and_bom, read_to_end through the decoder, the empty and
\* binary checks, remove_bom, convert_fn
CfRead(w) ==
    /\ pc[w] = "cf_read"
    /\ UNCHANGED <<convVars, auxVars>>
    /\ Exists(fs, job[w].input)
    /\ LET j == job[w]
           o == j.opts
           det == detect_encoding_and_bom(fs[j.input], o.from_encoding)
           content == Decode(det.encoding, fs[j.input])
           content2 == IF o.remove_bom /\ det.bom_size > 0
                       THEN Drop(content, det.bom_size) ELSE content
       IN  \/ /\ ~det.ok
              /\ Return(w, RetErr("EmptySource"))
              /\ UNCHANGED job
           \/ /\ det.ok
              /\ Return(w, RetErr("read"))
              /\ UNCHANGED job
           \/ /\ det.ok /\ content = <<>>
              /\ Return(w, RetErr("EmptySource"))
              /\ UNCHANGED job
           \/ /\ det.ok /\ content # <<>>
              /\ ~o.force /\ is_binary(content)
              /\ Return(w, RetOk("SkippedBinary"))
              /\ UNCHANGED job
           \/ /\ det.ok /\ content # <<>>
              /\ ~(~o.force /\ is_binary(content))
              /\ o.remove_bom /\ det.bom_size > Len(content)
              /\ Panic(w)
              /\ UNCHANGED job
           \/ /\ det.ok /\ content # <<>>
              /\ ~(~o.force /\ is_binary(content))
              /\ ~(o.remove_bom /\ det.bom_size > Len(content))
              /\ job' = [job EXCEPT ![w].encoding = det.encoding,
                                    ![w].bom_size = det.bom_size,
                                    ![w].content = content2,
                                    ![w].converted = convert_fn(j.fn, content2)]
              /\ Goto(w, "cf_create")
    /\ UNCHANGED fs

\* input.with_extension("tmp"), File::create(&output_path)?
CfCreate(w) ==
    /\ pc[w] = "cf_create"
    /\ UNCHANGED <<convVars, auxVars>>
    /\ LET temp == with_extension(job[w].input, "tmp")
       IN  \/ /\ fs' = FsWrite(fs, temp, <<>>)
              /\ job' = [job EXCEPT ![w].temp = temp]
              /\ Goto(w, "cf_write")
           \/ /\ Return(w, RetErr("create"))
              /\ UNCHANGED <<fs, job>>

\* the kept BOM, content[..bom_size], then the encoded conversion
CfWrite(w) ==
    /\ pc[w] = "cf_write"
    /\ UNCHANGED <<convVars, auxVars>>
    /\ LET j == job[w]
           o == j.opts
           keep == o.keep_bom /\ j.bom_size > 0 /\ ~o.remove_bom
           data == (IF keep THEN Take(j.content, j.bom_size) ELSE <<>>)
                      \o Encode(j.encoding, j.converted)
       IN  \/ /\ keep /\ j.bom_size > Len(j.content)
              /\ Panic(w)
              /\ UNCHANGED fs
           \/ /\ ~(keep /\ j.bom_size > Len(j.content))
              /\ fs' = FsWrite(fs, j.temp, data)
              /\ Goto(w, IF o.keep_date THEN "cf_keep_date" ELSE "cf_swap")
           \/ /\ ~(keep /\ j.bom_size > Len(j.content))
              /\ \E part \in Prefixes(data) : fs' = FsWrite(fs, j.temp, part)
              /\ Return(w, RetErr("write"))
    /\ UNCHANGED job

\* filetime::set_file_times(&output_path, atime, mtime)?
CfKeepDate(w) ==
    /\ pc[w] = "cf_keep_date"
    /\ UNCHANGED <<convVars, auxVars>>
    /\ \/ /\ Exists(fs, job[w].temp)
          /\ Goto(w, "cf_swap")
       \/ Return(w, RetErr("set_file_times"))
    /\ UNCHANGED <<fs, job>>

\* opt.backup: rename(input, input.with_extension("bak")); else remove_file(input)
CfSwap(w) ==
    /\ pc[w] = "cf_swap"
    /\ UNCHANGED <<convVars, auxVars>>
    /\ LET j == job[w]
       IN  \/ /\ j.opts.backup /\ Exists(fs, j.input)
              /\ fs' = FsRename(fs, j.input, with_extension(j.input, "bak"))
              /\ Goto(w, "cf_rename")
           \/ /\ j.opts.backup
              /\ Return(w, RetErr("rename_backup"))
              /\ UNCHANGED fs
           \/ /\ ~j.opts.backup /\ Exists(fs, j.input)
              /\ fs' = FsRemove(fs, j.input)
              /\ Goto(w, "cf_rename")
           \/ /\ ~j.opts.backup
              /\ Return(w, RetErr("remove_file"))
              /\ UNCHANGED fs
    /\ UNCHANGED job

\* rename(&output_path, input)
CfRename(w) ==
    /\ pc[w] = "cf_rename"
    /\ UNCHANGED <<convVars, auxVars>>
    /\ LET j == job[w]
       IN  \/ /\ Exists(fs, j.temp)
              /\ fs' = FsRename(fs, j.temp, j.input)
              /\ Return(w, RetOk("converted"))
           \/ /\ Return(w, RetErr("rename"))
              /\ UNCHANGED fs
    /\ UNCHANGED job

\* ------------------------------------------------ main.rs convert_large_file
\* File::open, metadata (done by CfOpen's twin lines 285-286), detection
LfDetect(w) ==
    /\ pc[w] = "lf_detect"
    /\ UNCHANGED <<convVars, auxVars>>
    /\ Exists(fs, job[w].input)
    /\ LET j == job[w]
           det == detect_encoding_and_bom(fs[j.input], j.opts.from_encoding)
       IN  \/ /\ ~det.ok
              /\ Return(w, RetErr("EmptySource"))
              /\ UNCHANGED job
           \/ /\ det.ok
              /\ job' = [job EXCEPT ![w].encoding = det.encoding,
                                    ![w].bom_size = det.bom_size]
              /\ Goto(w, "lf_create")
    /\ UNCHANGED fs

\* input.with_extension("tmp"), File::create(&output_path)?
LfCreate(w) ==
    /\ pc[w] = "lf_create"
    /\ UNCHANGED <<convVars, auxVars>>
    /\ LET temp == with_extension(job[w].input, "tmp")
       IN  \/ /\ fs' = FsWrite(fs, temp, <<>>)
              /\ job' = [job EXCEPT ![w].temp = temp]
              /\ Goto(w, "lf_bom")
           \/ /\ Return(w, RetErr("create"))
              /\ UNCHANGED <<fs, job>>

\* the BOM is copied (read_exact) or skipped (seek), the decoder is built on
\* what follows it, the buffer is set up
LfBom(w) ==
    /\ pc[w] = "lf_bom"
    /\ UNCHANGED <<convVars, auxVars>>
    /\ Exists(fs, job[w].input)
    /\ LET j == job[w]
           o == j.opts
           keep == o.keep_bom /\ j.bom_size > 0 /\ ~o.remove_bom
           source == fs[j.input]
       IN  \/ /\ keep /\ Len(source) < j.bom_size
              /\ Return(w, RetErr("read"))
              /\ UNCHANGED <<fs, job>>
           \/ /\ ~(keep /\ Len(source) < j.bom_size)
              /\ fs' = FsWrite(fs, j.temp,
                               IF keep THEN Take(source, j.bom_size) ELSE <<>>)
              /\ \E n \in 1..MaxChunk :
                    job' = [job EXCEPT
                              ![w].rest = Decode(j.encoding, Drop(source, j.bom_size)),
                              ![w].buf = n]
              /\ Goto(w, "lf_loop")

\* one iteration with bytes_read > 0: convert the chunk alone and write it
LfChunk(w) ==
    /\ pc[w] = "lf_loop"
    /\ UNCHANGED <<convVars, auxVars>>
    /\ job[w].rest # <<>>
    /\ LET j == job[w]
           bytes_read == IF Len(j.rest) < j.buf THEN Len(j.rest) ELSE j.buf
           converted == convert_fn(j.fn, Take(j.rest, bytes_read))
       IN  \/ /\ fs' = FsWrite(fs, j.temp, fs[j.temp] \o converted)
              /\ job' = [job EXCEPT ![w].rest = Drop(j.rest, bytes_read)]
              /\ Goto(w, "lf_loop")
           \/ /\ Return(w, RetErr("write"))
              /\ UNCHANGED <<fs, job>>

\* the iteration with bytes_read = 0: break
LfEof(w) ==
    /\ pc[w] = "lf_loop"
    /\ UNCHANGED <<convVars, auxVars>>
    /\ job[w].rest = <<>>
    /\ Goto(w, IF job[w].opts.keep_date THEN "cf_keep_date" ELSE "cf_swap")
    /\ UNCHANGED <<fs, job>>

\* ------------------------------------------------------- lib.rs process_file
\* fs::read(input_path)?, convert_line_endings(...)
PfRead(w) ==
    /\ pc[w] = "pf_read"
    /\ UNCHANGED <<convVars, auxVars>>
    /\ LET j == job[w]
           o == j.opts
       IN  \/ /\ Return(w, RetErr("read"))
              /\ UNCHANGED job
           \/ /\ Exists(fs, j.input)
              /\ LET content == fs[j.input]
                     res == convert_line_endings(content, o.keep_bom, o.force,
                                                 o.conversion_mode, o.add_eol)
                 IN  IF res.ok
                     THEN /\ job' = [job EXCEPT ![w].content = content,
                                                ![w].converted = res.out]
                          /\ Goto(w, IF o.backup THEN "pf_backup" ELSE "pf_metadata")
                     ELSE /\ Return(w, [ok |-> FALSE, kind |-> "BinaryDetected",
                                        byte |-> res.byte, line |-> res.line])
                          /\ UNCHANGED job
    /\ UNCHANGED fs

\* fs::copy(input_path, format!("{}~", input_path))?
PfBackup(w) ==
    /\ pc[w] = "pf_backup"
    /\ UNCHANGED <<convVars, auxVars>>
    /\ LET j == job[w]
       IN  \/ /\ Exists(fs, j.input)
              /\ fs' = FsCopy(fs, j.input, Tilde(j.input))
              /\ Goto(w, "pf_metadata")
           \/ /\ Return(w, RetErr("copy_backup"))
              /\ UNCHANGED fs
    /\ UNCHANGED job

\* output_path.unwrap_or(input_path) (job.output), fs::metadata(input_path)?
PfMetadata(w) ==
    /\ pc[w] = "pf_metadata"
    /\ UNCHANGED <<convVars, auxVars>>
    /\ \/ /\ Exists(fs, job[w].input)
          /\ Goto(w, "pf_write")
       \/ Return(w, RetErr("metadata"))
    /\ UNCHANGED <<fs, job>>

\* output_path.with_extension("tmp"), fs::write(&temp_path, converted_content)?
PfWrite(w) ==
    /\ pc[w] = "pf_write"
    /\ UNCHANGED <<convVars, auxVars>>
    /\ LET j == job[w]
           temp == with_extension(j.output, "tmp")
       IN  \/ /\ fs' = FsWrite(fs, temp, j.converted)
              /\ job' = [job EXCEPT ![w].temp = temp]
              /\ Goto(w, "pf_perms")
           \/ /\ \E part \in Prefixes(j.converted) : fs' = FsWrite(fs, temp, part)
              /\ job' = [job EXCEPT ![w].temp = temp]
              /\ Return(w, RetErr("write"))
           \/ /\ Return(w, RetErr("create"))
              /\ UNCHANGED <<fs, job>>

\* fs::set_permissions(&temp_path, permissions)?
PfPerms(w) ==
    /\ pc[w] = "pf_perms"
    /\ UNCHANGED <<convVars, auxVars>>
    /\ \/ /\ Exists(fs, job[w].temp)
          /\ Goto(w, "pf_rename")
       \/ Return(w, RetErr("set_permissions"))
    /\ UNCHANGED <<fs, job>>

\* fs::rename(&temp_path, output_path)?
PfRename(w) ==
    /\ pc[w] = "pf_rename"
    /\ UNCHANGED <<convVars, auxVars>>
    /\ LET j == job[w]
       IN  \/ /\ Exists(fs, j.temp)
              /\ fs' = FsRename(fs, j.temp, j.output)
              /\ Return(w, RetOk("converted"))
           \/ /\ Return(w, RetErr("rename"))
              /\ UNCHANGED fs
    /\ UNCHANGED job

\* ======================================================================
\* The detector applied to a byte source (main.rs detect_encoding_and_bom
\* on a Cursor, as test_detect_encoding_and_bom calls it).
\* ======================================================================
\* longest source the detector is given (it reads at most 4 bytes)
MaxSourceLen == 4

\* the bytes of the three BOMs, a text byte and the zero the buffer is
\* filled with
SourceBytes == {BOM0, BOM1, BOM2, 255, 254, LetterA, NUL}
Sources == SeqsUpTo(SourceBytes, MaxSourceLen)
\* --from-encoding: the default, the four names get_encoding knows, another
SpecifiedEncodings ==
    {"auto", "utf8", "utf16le", "utf16be", "iso-8859-1", "unknown"}

DetectInit ==
    /\ dSource \in Sources
    /\ dEncoding \in SpecifiedEncodings
    /\ dStage = "init"
    /\ dRes = NoDetection
    /\ cInput = <<>> /\ cStage = "off"
    /\ cFn = "none" /\ cFn2 = "none"
    /\ cOpts = NoOpts
    /\ cRes1 = NoRes /\ cRes2 = NoRes
    /\ sBuf = 0 /\ sPos = 0 /\ sOut = <<>>
    /\ fs = <<>>
    /\ pc = <<>> /\ job = <<>> /\ ret = <<>>
    /\ bEntry = "none" /\ bOpts = NoBatchOpts /\ bInputs = <<>> /\ bIdx = 0
    /\ bWalk = <<>> /\ bLog = <<>> /\ bProc = "off"
    /\ reader = <<>> /\ rPos = 0 /\ last_char = 0 /\ rStage = "off"
    /\ dos_count = 0 /\ unix_count = 0 /\ mac_count = 0

\* detect_encoding_and_bom(&mut reader, specified_encoding)
Detect ==
    /\ dStage = "init"
    /\ dRes' = detect_encoding_and_bom(dSource, dEncoding)
    /\ dStage' = "detected"
    /\ UNCHANGED <<dSource, dEncoding, convVars, fileVars, batchVars, countVars>>

DetectNext == Detect

\* ======================================================================
\* A run of the program over the inputs of its command line.
\* main.rs: main, process_input, process_file; bin/unix2dos.rs: main.
\* Each file is converted by the steps of the file machine above.
\* ======================================================================
\* most inputs on the command line
MaxInputs == 2

\* what the files of a run hold: nothing, a line, a BOM and a line, a
\* control marker
BatchContents == {<<>>, <<LF>>, Utf8Bom \o <<LF>>, <<SOH>>}
\* an input names a path that does not exist, a regular file, or a directory
\* of two regular files
MissingInput == [kind |-> "missing", bytes |-> <<>>, entries |-> <<>>]
FileInput(bytes) == [kind |-> "file", bytes |-> bytes, entries |-> <<>>]
DirInput(entries) == [kind |-> "dir", bytes |-> <<>>, entries |-> entries]
BatchInputs ==
    {MissingInput} \cup {FileInput(b) : b \in BatchContents}
        \cup {DirInput(<<b, <<LF>>>>) : b \in {<<>>, Utf8Bom \o <<LF>>}}
InputLists == UNION {[1..n -> BatchInputs] : n \in 1..MaxInputs}

\* the i-th name: a, aa, aaa, ...
RECURSIVE Stem(_)
Stem(i) == IF i <= 1 THEN "a" ELSE Stem(i - 1) \o "a"
InputPath(i) == Path(Stem(i), "txt")
EntryPath(i, k) == Path(Stem(i) \o "/" \o Stem(k), "txt")
EntryPaths(inputs, i) == [k \in 1..Len(inputs[i].entries) |-> EntryPath(i, k)]

\* the regular files the inputs stand for, as the file system holds them
BatchFs(inputs) ==
    LET files == {i \in 1..Len(inputs) : inputs[i].kind = "file"}
        entries == {<<i, k>> \in (1..Len(inputs)) \X (1..2) :
                        inputs[i].kind = "dir" /\ k <= Len(inputs[i].entries)}
        paths == {InputPath(i) : i \in files}
                    \cup {EntryPath(e[1], e[2]) : e \in entries}
    IN  [q \in paths |->
            IF \E i \in files : q = InputPath(i)
            THEN inputs[CHOOSE i \in files : q = InputPath(i)].bytes
            ELSE LET e == CHOOSE e \in entries : q = EntryPath(e[1], e[2])
                 IN  inputs[e[1]].entries[e[2]]]

\* Opt of a run of main.rs (info, backup and force unset: the contents above
\* hold no NUL), the flags of a run of unix2dos.rs
BatchOptions(entry) ==
    IF entry = "dos2unix"
    THEN [to_dos : {FALSE}, keep_date : BOOLEAN, backup : {FALSE}, force : {FALSE},
          keep_bom : BOOLEAN, remove_bom : {FALSE}, from_encoding : {"auto"},
          conversion_mode : {"ToUnix"}, add_eol : {FALSE}, recursive : BOOLEAN]
    ELSE [to_dos : {FALSE}, keep_date : {FALSE}, backup : BOOLEAN, force : BOOLEAN,
          keep_bom : BOOLEAN, remove_bom : {FALSE}, from_encoding : {"auto"},
          conversion_mode : {"ToDos"}, add_eol : {FALSE}, recursive : {FALSE}]
\* the part of the options a conversion is given
FileOpts(o) == [f \in DOMAIN NoFileOpts |-> o[f]]

\* an entry of the log: the file a conversion was called for and what the
\* call returned (NoRet while it runs)
Attempt(path) == [path |-> path, ret |-> NoRet]
Reported(path, r) == [path |-> path, ret |-> r]

BatchInit ==
    /\ bEntry \in {"dos2unix", "unix2dos"}
    /\ bOpts \in BatchOptions(bEntry)
    /\ bInputs \in InputLists
    /\ bIdx = 1
    /\ bWalk = <<>> /\ bLog = <<>> /\ bProc = "running"
    /\ reader = <<>> /\ rPos = 0 /\ last_char = 0 /\ rStage = "off"
    /\ dos_count = 0 /\ unix_count = 0 /\ mac_count = 0
    /\ fs = BatchFs(bInputs)
    /\ pc = [w \in Workers |-> "idle"]
    /\ job = [w \in Workers |-> IdleJob]
    /\ ret = [w \in Workers |-> NoRet]
    /\ cInput = <<>> /\ cStage = "off"
    /\ cFn = "none" /\ cFn2 = "none"
    /\ cOpts = NoOpts
    /\ cRes1 = NoRes /\ cRes2 = NoRes
    /\ sBuf = 0 /\ sPos = 0 /\ sOut = <<>>
    /\ dSource = <<>> /\ dEncoding = "auto" /\ dStage = "off" /\ dRes = NoDetection

\* main.rs process_file(path, opt): convert_file(path, opt, dos2unix)
CallConvertFile(w, path) ==
    /\ \E large \in BOOLEAN :
          job' = [job EXCEPT ![w] =
                     [IdleJob EXCEPT !.entry = "convert_file", !.input = path,
                                     !.output = path, !.opts = FileOpts(bOpts),
                                     !.large = large, !.fn = "dos2unix",
                                     !.fs0 = fs, !.orig = fs[path]]]
    /\ pc' = [pc EXCEPT ![w] = "cf_open"]
    /\ bLog' = Append(bLog, Attempt(path))

\* main.rs main, one iteration of `for input in &opt.input`: process_input
MainNextInput(w) ==
    /\ bEntry = "dos2unix" /\ bProc = "running" /\ pc[w] = "idle"
    /\ bIdx <= Len(bInputs)
    /\ LET input == bInputs[bIdx]
           path == InputPath(bIdx)
       IN  CASE input.kind = "missing" ->
                  /\ bLog' = Append(bLog, Reported(path, RetErr("NotFound")))
                  /\ bIdx' = bIdx + 1
                  /\ UNCHANGED <<bWalk, bProc, pc, job>>
             [] input.kind = "dir" /\ bOpts.recursive ->
                  /\ bWalk' = EntryPaths(bInputs, bIdx)
                  /\ bProc' = "walking"
                  /\ UNCHANGED <<bIdx, bLog, pc, job>>
             [] input.kind = "dir" /\ ~bOpts.recursive ->
                  /\ bIdx' = bIdx + 1
                  /\ UNCHANGED <<bWalk, bLog, bProc, pc, job>>
             [] input.kind = "file" ->
                  /\ CallConvertFile(w, path)
                  /\ UNCHANGED <<bIdx, bWalk, bProc>>
    /\ UNCHANGED <<bEntry, bOpts, bInputs, fs, ret, convVars, detVars, countVars>>

\* process_input, one iteration of `for entry in walker.into_iter()` on a
\* regular file
WalkEntry(w) ==
    /\ bProc = "walking" /\ pc[w] = "idle"
    /\ bWalk # <<>>
    /\ CallConvertFile(w, Head(bWalk))
    /\ bWalk' = Tail(bWalk)
    /\ UNCHANGED <<bEntry, bOpts, bInputs, bIdx, bProc, fs, ret, convVars, detVars, countVars>>

\* the walker is exhausted: process_input returns Ok(()) to main's loop
WalkEnd(w) ==
    /\ bProc = "walking" /\ pc[w] = "idle"
    /\ bWalk = <<>>
    /\ bProc' = "running"
    /\ bIdx' = bIdx + 1
    /\ UNCHANGED <<bEntry, bOpts, bInputs, bWalk, bLog, fileVars, convVars, detVars, countVars>>

\* bin/unix2dos.rs main, one iteration of `for input_path in &files`:
\* process_file(input_path, None, ...) of lib.rs
Unix2dosNextFile(w) ==
    /\ bEntry = "unix2dos" /\ bProc = "running" /\ pc[w] = "idle"
    /\ bIdx <= Len(bInputs)
    /\ LET path == InputPath(bIdx)
       IN  /\ job' = [job EXCEPT ![w] =
                         [IdleJob EXCEPT !.entry = "process_file", !.input = path,
                                         !.output = path, !.opts = FileOpts(bOpts),
                                         !.fn = bOpts.conversion_mode, !.fs0 = fs,
                                         !.orig = IF Exists(fs, path) THEN fs[path]
                                                  ELSE <<>>]]
           /\ bLog' = Append(bLog, Attempt(path))
    /\ pc' = [pc EXCEPT ![w] = "pf_read"]
    /\ UNCHANGED <<bEntry, bOpts, bInputs, bIdx, bWalk, bProc, fs, ret, convVars,
                   detVars, countVars>>

\* the conversion returned: `if let Err(e) = ... { error!(...) }`, and the
\* loop that called it goes on
FileReturned(w) ==
    /\ bProc \in {"running", "walking"} /\ pc[w] = "done"
    /\ bLog' = [bLog EXCEPT ![Len(bLog)].ret = ret[w]]
    /\ bIdx' = IF bProc = "running" THEN bIdx + 1 ELSE bIdx
    /\ pc' = [pc EXCEPT ![w] = "idle"]
    /\ job' = [job EXCEPT ![w] = IdleJob]
    /\ ret' = [ret EXCEPT ![w] = NoRet]
    /\ UNCHANGED <<bEntry, bOpts, bInputs, bWalk, bProc, fs, convVars, detVars, countVars>>

\* the conversion panicked: the panic unwinds through the loops and main,
\* and the process ends
PanicEndsRun(w) ==
    /\ bProc \in {"running", "walking"} /\ pc[w] = "panicked"
    /\ bProc' = "panicked"
    /\ UNCHANGED <<bEntry, bOpts, bInputs, bIdx, bWalk, bLog, fileVars, convVars,
                   detVars, countVars>>

\* the loop over the inputs is done: main returns
RunEnds(w) ==
    /\ bProc = "running" /\ pc[w] = "idle"
    /\ bIdx > Len(bInputs)
    /\ bProc' = "exited"
    /\ UNCHANGED <<bEntry, bOpts, bInputs, bIdx, bWalk, bLog, fileVars, convVars,
                   detVars, countVars>>

BatchNext ==
    \E w \in Workers :
        \/ MainNextInput(w) \/ WalkEntry(w) \/ WalkEnd(w) \/ Unix2dosNextFile(w)
        \/ FileReturned(w) \/ PanicEndsRun(w) \/ RunEnds(w)
        \/ CfOpen(w) \/ CfRead(w) \/ CfCreate(w) \/ CfWrite(w)
        \/ CfKeepDate(w) \/ CfSwap(w) \/ CfRename(w)
        \/ LfDetect(w) \/ LfCreate(w) \/ LfBom(w) \/ LfChunk(w) \/ LfEof(w)
        \/ PfRead(w) \/ PfBackup(w) \/ PfMetadata(w)
        \/ PfWrite(w) \/ PfPerms(w) \/ PfRename(w)

\* ======================================================================
\* Two conversions of two files by two workers whose file-system calls
\* interleave: process_file of lib.rs, every call of which names its file by
\* path, converting each file in place.
\* ======================================================================
ParWorkers == {"w1", "w2"}
\* the first worker's file, and the files the second worker's is drawn from
FirstInput == Path("a", "txt")
SecondInputs == {Path("a", "md"), Path("b", "txt")}
\* what the two files hold
ParContents == {<<LF>>, <<LetterA, LF>>}
ParOpts ==
    [to_dos : {FALSE}, keep_date : {FALSE}, backup : BOOLEAN, force : {FALSE},
     keep_bom : {FALSE}, remove_bom : {FALSE}, from_encoding : {"auto"},
     conversion_mode : {"ToDos"}, add_eol : {FALSE}]

\* each worker has been handed its file; no conversion has started
ParInit ==
    /\ \E second \in SecondInputs, c1 \in ParContents, c2 \in ParContents :
          /\ c1 # c2
          /\ fs = [q \in {FirstInput, second} |->
                      IF q = FirstInput THEN c1 ELSE c2]
          /\ job = [w \in ParWorkers |->
                      [IdleJob EXCEPT !.input = IF w = "w1" THEN FirstInput
                                                ELSE second]]
    /\ pc = [w \in ParWorkers |-> "idle"]
    /\ ret = [w \in ParWorkers |-> NoRet]
    /\ cInput = <<>> /\ cStage = "off"
    /\ cFn = "none" /\ cFn2 = "none"
    /\ cOpts = NoOpts
    /\ cRes1 = NoRes /\ cRes2 = NoRes
    /\ sBuf = 0 /\ sPos = 0 /\ sOut = <<>>
    /\ dSource = <<>> /\ dEncoding = "auto" /\ dStage = "off" /\ dRes = NoDetection
    /\ bEntry = "none" /\ bOpts = NoBatchOpts /\ bInputs = <<>> /\ bIdx = 0
    /\ bWalk = <<>> /\ bLog = <<>> /\ bProc = "off"
    /\ reader = <<>> /\ rPos = 0 /\ last_char = 0 /\ rStage = "off"
    /\ dos_count = 0 /\ unix_count = 0 /\ mac_count = 0

\* the worker calls process_file(input_path, None, ...) on its file
ParStart(w) ==
    /\ pc[w] = "idle"
    /\ UNCHANGED <<convVars, auxVars>>
    /\ \E o \in ParOpts :
          job' = [job EXCEPT ![w].entry = "process_file",
                             ![w].output = job[w].input,
                             ![w].opts = o, ![w].fn = o.conversion_mode,
                             ![w].fs0 = fs, ![w].orig = fs[job[w].input]]
    /\ Goto(w, "pf_read")
    /\ UNCHANGED fs

ParNext ==
    \E w \in ParWorkers :
        \/ ParStart(w)
        \/ PfRead(w) \/ PfBackup(w) \/ PfMetadata(w)
        \/ PfWrite(w) \/ PfPerms(w) \/ PfRename(w)

\* ======================================================================
\* count_line_endings (main.rs) as a state machine: the for loop over
\* reader.bytes(), one byte an iteration; a read can fail.
\* ======================================================================
MaxCountLen == 4

\* the two line-ending bytes, a text byte, and the zero last_char starts as
CountBytes == {LF, CR, LetterA, NUL}
CountSources == SeqsUpTo(CountBytes, MaxCountLen)

\* a match that tries the (_, LF) arm first: the LF of a CR LF pair counts
\* as a Unix ending
MatchArmLFFirst(last, byte) ==
    CASE byte = LF -> "unix"
      [] last = CR -> "mac"
      [] OTHER -> "none"

\* match (last_char, byte): the count the arm taken increments
MatchArm(last, byte) ==
    CASE last = CR /\ byte = LF -> "dos"
      [] byte = LF -> "unix"
      [] last = CR -> "mac"
      [] OTHER -> "none"

CountInit ==
    /\ reader \in CountSources
    /\ rPos = 0
    /\ dos_count = 0 /\ unix_count = 0 /\ mac_count = 0
    /\ last_char = 0
    /\ rStage = "counting"
    /\ cInput = <<>> /\ cStage = "off"
    /\ cFn = "none" /\ cFn2 = "none"
    /\ cOpts = NoOpts
    /\ cRes1 = NoRes /\ cRes2 = NoRes
    /\ sBuf = 0 /\ sPos = 0 /\ sOut = <<>>
    /\ fs = <<>>
    /\ pc = <<>> /\ job = <<>> /\ ret = <<>>
    /\ dSource = <<>> /\ dEncoding = "auto" /\ dStage = "off" /\ dRes = NoDetection
    /\ bEntry = "none" /\ bOpts = NoBatchOpts /\ bInputs = <<>> /\ bIdx = 0
    /\ bWalk = <<>> /\ bLog = <<>> /\ bProc = "off"

\* one iteration: the match, then last_char = byte
CountByte ==
    /\ rStage = "counting"
    /\ rPos < Len(reader)
    /\ LET byte == reader[rPos + 1]
           arm == MatchArm(last_char, byte)
       IN  /\ dos_count' = IF arm = "dos" THEN dos_count + 1 ELSE dos_count
           /\ unix_count' = IF arm = "unix" THEN unix_count + 1 ELSE unix_count
           /\ mac_count' = IF arm = "mac" THEN mac_count + 1 ELSE mac_count
           /\ last_char' = byte
    /\ rPos' = rPos + 1
    /\ UNCHANGED <<reader, rStage, convVars, fileVars, detVars, batchVars>>

\* let byte = byte?; with an Err from the reader
CountReadErr ==
    /\ rStage = "counting"
    /\ rPos < Len(reader)
    /\ rStage' = "failed"
    /\ UNCHANGED <<reader, rPos, dos_count, unix_count, mac_count, last_char>>
    /\ UNCHANGED <<convVars, fileVars, detVars, batchVars>>

\* the iterator is exhausted: the last Mac ending, then Ok((dos, unix, mac))
CountEof ==
    /\ rStage = "counting"
    /\ rPos = Len(reader)
    /\ mac_count' = IF last_char = CR THEN mac_count + 1 ELSE mac_count
    /\ rStage' = "counted"
    /\ UNCHANGED <<reader, rPos, dos_count, unix_count, last_char>>
    /\ UNCHANGED <<convVars, fileVars, detVars, batchVars>>

CountNext == CountByte \/ CountReadErr \/ CountEof

\* ---------------------------------------------------------- specifications
FileNext ==
    \E w \in Workers :
        \/ StartConvertFile(w) \/ StartProcessFile(w)
        \/ CfOpen(w) \/ CfRead(w) \/ CfCreate(w) \/ CfWrite(w)
        \/ CfKeepDate(w) \/ CfSwap(w) \/ CfRename(w)
        \/ LfDetect(w) \/ LfCreate(w) \/ LfBom(w) \/ LfChunk(w) \/ LfEof(w)
        \/ PfRead(w) \/ PfBackup(w) \/ PfMetadata(w)
        \/ PfWrite(w) \/ PfPerms(w) \/ PfRename(w)

\* the conversion functions alone
SpecConv == ConvInit /\ [][ConvNext]_vars

\* one file conversion
Spec == FileInit /\ [][FileNext]_vars

\* the detector alone
SpecDetect == DetectInit /\ [][DetectNext]_vars

\* a run over a list of inputs
SpecBatch == BatchInit /\ [][BatchNext]_vars

\* two conversions side by side
SpecPar == ParInit /\ [][ParNext]_vars

\* the line-ending count alone
SpecCount == CountInit /\ [][CountNext]_vars

\* ======================================================================
\* Properties of the conversion functions (specification SpecConv)
\* ======================================================================
Applied == cStage \in {"once", "twice"} /\ cRes1.ok
HasBom(bytes) == StartsWith(bytes, Utf8Bom)

\* what the loop of a conversion runs over: convert_line_endings skips a
\* leading UTF-8 BOM, dos2unix and unix2dos run over every byte
BodyOf(f, bytes) == IF f \in Modes /\ HasBom(bytes) THEN Drop(bytes, 3) ELSE bytes
\* the BOM convert_line_endings copies to the output before the loop
KeptBom(f, bytes, o) ==
    IF f \in Modes /\ HasBom(bytes) /\ o.keep_bom THEN Utf8Bom ELSE <<>>

\* the rules of the three modes, stated position by position over the input
FollowedByLF(s, i) == i < Len(s) /\ s[i + 1] = LF
PrecededByCR(s, i) == i > 1 /\ s[i - 1] = CR

RECURSIVE RuleToUnix(_, _)
RuleToUnix(s, n) ==
    IF n = 0 THEN <<>>
    ELSE RuleToUnix(s, n - 1)
            \o (IF s[n] = CR /\ FollowedByLF(s, n) THEN <<>> ELSE <<s[n]>>)

RECURSIVE RuleToDos(_, _)
RuleToDos(s, n) ==
    IF n = 0 THEN <<>>
    ELSE RuleToDos(s, n - 1)
            \o (IF s[n] = LF /\ ~PrecededByCR(s, n) THEN <<CR, LF>> ELSE <<s[n]>>)

RuleToMac(s) ==
    [i \in 1..Len(s) |-> IF s[i] = LF /\ ~PrecededByCR(s, i) THEN CR ELSE s[i]]

HasNoCR(s) == \A i \in 1..Len(s) : s[i] # CR
OnlyCRLF(s) ==
    \A i \in 1..Len(s) : /\ (s[i] = CR => FollowedByLF(s, i))
                         /\ (s[i] = LF => PrecededByCR(s, i))
\* the bytes of s that are neither CR nor LF, in their order
NonEol(s) == SelectSeq(s, LAMBDA b : b # CR /\ b # LF)
ToDosFns == {"ToDos", "unix2dos"}
ToUnixFns == {"ToUnix", "dos2unix"}

\* C1: streaming the input through convert_fn chunk by chunk writes the same
\* bytes as one call of convert_fn on the whole input, for every buffer size.
C1_StreamedEqualsWhole ==
    cStage = "streamed" => sOut = convert_fn(cFn, cInput)

\* C6: round trip. To-DOS then to-Unix gives back an input that holds no CR;
\* to-Unix then to-DOS gives back an input whose CRs and LFs all sit in CR LF
\* pairs (add_eol unset; a BOM that lib.rs is told not to keep stays dropped).
C6_RoundTrip ==
    (/\ cStage = "twice" /\ cRes1.ok /\ cRes2.ok /\ ~cOpts.add_eol
     /\ \/ cFn \in ToDosFns /\ cFn2 \in ToUnixFns /\ HasNoCR(cInput)
        \/ cFn \in ToUnixFns /\ cFn2 \in ToDosFns /\ OnlyCRLF(cInput))
    => cRes2.out =
          IF HasBom(cInput) /\ ~cOpts.keep_bom /\ (cFn \in Modes \/ cFn2 \in Modes)
          THEN Drop(cInput, 3) ELSE cInput

C6_Witness ==
    /\ cStage = "twice" /\ cFn = "ToDos" /\ cFn2 = "dos2unix"
    /\ cInput = <<LetterA, LF, LF>>
    /\ cRes1.out = <<LetterA, CR, LF, CR, LF>>
    /\ cRes2.out = cInput

\* C7: idempotence. Applying the same conversion to its own output changes
\* nothing, for ToDos, ToUnix and ToMac and for dos2unix and unix2dos.
C7_Idempotent ==
    (cStage = "twice" /\ cFn2 = cFn /\ cRes1.ok /\ cRes2.ok)
    => cRes2.out = cRes1.out

\* C8: to DOS, a CR is put before each LF that no CR precedes, an LF that a
\* CR precedes is written as it is, every other byte is written unchanged.
C8_ToDosRule ==
    (Applied /\ cFn \in ToDosFns /\ ~cOpts.add_eol)
    => cRes1.out = KeptBom(cFn, cInput, cOpts)
                      \o RuleToDos(BodyOf(cFn, cInput), Len(BodyOf(cFn, cInput)))

\* C9: to Unix, each CR that an LF follows is dropped, each other CR (the
\* last byte included) and every other byte is written unchanged.
C9_ToUnixRule ==
    (Applied /\ cFn \in ToUnixFns /\ ~cOpts.add_eol)
    => cRes1.out = KeptBom(cFn, cInput, cOpts)
                      \o RuleToUnix(BodyOf(cFn, cInput), Len(BodyOf(cFn, cInput)))

C9_Witness ==
    /\ cStage = "once" /\ cFn = "ToUnix"
    /\ cInput = <<CR, LF, CR, CR>>
    /\ cRes1.ok /\ cRes1.out = <<LF, CR, CR>>

\* C10: to Mac, each LF that no CR precedes becomes CR, the LF of a CR LF
\* pair stays LF, every other byte is written unchanged.
C10_ToMacRule ==
    (Applied /\ cFn = "ToMac" /\ ~cOpts.add_eol)
    => cRes1.out = KeptBom(cFn, cInput, cOpts) \o RuleToMac(BodyOf(cFn, cInput))

C10_Witness ==
    /\ cStage = "once" /\ cFn = "ToMac"
    /\ cInput = <<LF, CR, LF, LF>>
    /\ cRes1.ok /\ cRes1.out = <<CR, CR, LF, CR>>

\* the output of a mode without add_eol, by the rules of C8, C9 and C10
ModeRule(f, body) ==
    CASE f = "ToUnix" -> RuleToUnix(body, Len(body))
      [] f = "ToDos" -> RuleToDos(body, Len(body))
      [] f = "ToMac" -> RuleToMac(body)
\* the line terminator of a mode
TerminatorOf(f) ==
    CASE f = "ToUnix" -> <<LF>>
      [] f = "ToDos" -> <<CR, LF>>
      [] f = "ToMac" -> <<CR>>
Last(s) == s[Len(s)]
EndsLine(s) == s # <<>> /\ Last(s) \in {LF, CR}

\* C12 as stated: with add_eol, when the last byte emitted (a kept BOM's last
\* byte included) is neither LF nor CR, the mode's terminator is appended
\* once; when the output ends in LF or CR, and without add_eol, nothing is.
C12_AddEolByLastEmitted ==
    (Applied /\ cFn \in Modes) =>
        LET plain == KeptBom(cFn, cInput, cOpts) \o ModeRule(cFn, BodyOf(cFn, cInput))
        IN  cRes1.out = IF cOpts.add_eol /\ plain # <<>> /\ ~EndsLine(plain)
                        THEN plain \o TerminatorOf(cFn) ELSE plain

\* C12 amended: the byte that decides is the last byte of the content after
\* the BOM; a content that is empty (an empty input, or a BOM alone) gets no
\* terminator.
C12_AddEol ==
    (Applied /\ cFn \in Modes) =>
        LET body == ModeRule(cFn, BodyOf(cFn, cInput))
            plain == KeptBom(cFn, cInput, cOpts) \o body
        IN  cRes1.out = IF cOpts.add_eol /\ body # <<>> /\ ~EndsLine(body)
                        THEN plain \o TerminatorOf(cFn) ELSE plain

C12_Witness ==
    /\ cStage = "once" /\ cFn = "ToDos" /\ cOpts.add_eol
    /\ cInput = <<LetterA, LetterA, LetterA>>
    /\ cRes1.ok /\ cRes1.out = <<LetterA, LetterA, LetterA, CR, LF>>


\* C20: every conversion is an order-preserving rewrite: the bytes of the
\* output (after a kept BOM) that are neither CR nor LF are the bytes of the
\* input (after its BOM) that are neither CR nor LF, in the same order; so
\* for one call on a whole buffer and for the chunks of a stream.
C20_OrderPreserving ==
    /\ Applied =>
          NonEol(Drop(cRes1.out, Len(KeptBom(cFn, cInput, cOpts))))
              = NonEol(BodyOf(cFn, cInput))
    /\ cStage = "streamed" => NonEol(sOut) = NonEol(cInput)

C20_Witness ==
    /\ cStage = "once" /\ cFn = "ToUnix" /\ cOpts.force
    /\ cInput = <<LetterA, CR, LF, SOH>>
    /\ cRes1.ok /\ cRes1.out = <<LetterA, LF, SOH>>

\* C21: to Unix, a CR that is the last byte of the stream is written as CR at
\* the end of the output, for every buffer size of the read loop (1
\* included) and for one call on the whole content; an input without any
\* CR LF pair is streamed through unchanged.
EndsInCR(s) == s # <<>> /\ Last(s) = CR
HasCRLF(s) == \E i \in 1..Len(s) : s[i] = CR /\ FollowedByLF(s, i)
C21_TrailingCRFlushed ==
    /\ (cStage = "streamed" /\ cFn = "dos2unix" /\ EndsInCR(cInput)) =>
          /\ EndsInCR(sOut)
          /\ ~HasCRLF(cInput) => sOut = cInput
    /\ (Applied /\ cFn \in ToUnixFns /\ EndsInCR(cInput)) => EndsInCR(cRes1.out)

C21_Witness ==
    /\ cStage = "streamed" /\ cFn = "dos2unix" /\ sBuf = 1
    /\ cInput = <<LetterA, LF, LetterA, CR>>
    /\ sOut = <<LetterA, LF, LetterA, CR>>

\* C22: a binary detection names the first control marker of the scanned
\* content (the content after its BOM) and a 1-based line number: 1 plus the
\* number of LF bytes strictly before that marker. Without force the
\* detection happens exactly when the scanned content holds a marker.
MarkerIndex(bytes) ==
    IF \E i \in 1..Len(bytes) : IsControlMarker(bytes[i])
    THEN CHOOSE i \in 1..Len(bytes) :
             /\ IsControlMarker(bytes[i])
             /\ \A k \in 1..(i - 1) : ~IsControlMarker(bytes[k])
    ELSE 0
LFsBefore(bytes, i) == Cardinality({k \in 1..(i - 1) : bytes[k] = LF})
C22_BinaryLineNumber ==
    (cStage = "once" /\ cFn \in Modes) =>
        LET scanned == BodyOf(cFn, cInput)
            at == MarkerIndex(scanned)
        IN  IF at > 0 /\ ~cOpts.force
            THEN /\ ~cRes1.ok
                 /\ cRes1.byte = scanned[at]
                 /\ cRes1.line = 1 + LFsBefore(scanned, at)
            ELSE cRes1.ok

C22_Witness ==
    /\ cStage = "once" /\ cFn = "ToDos" /\ ~cOpts.force
    /\ cInput = <<LF, CR, LF, SOH>>
    /\ ~cRes1.ok /\ cRes1.byte = SOH /\ cRes1.line = 3

\* C24: the output of a conversion to Unix, by the ToUnix branch of lib.rs or
\* by dos2unix, holds no CR that an LF follows immediately.
C24_NoCRLFAfterToUnix ==
    (Applied /\ cFn \in ToUnixFns) => ~HasCRLF(cRes1.out)





\* ======================================================================
\* Properties of one file conversion (specification Spec)
\* ======================================================================
Overwrites(w) == job[w].entry # "none" /\ job[w].output = job[w].input
Returned(w) == pc[w] = "done"
Succeeded(w) == pc[w] = "done" /\ ret[w].ok /\ ret[w].kind = "converted"
HoldsOriginal(w, p) == Exists(fs, p) /\ fs[p] = job[w].orig
\* the temporary path is not the input's own path (the case of C18)
TempApart(w) == job[w].temp # NoPath /\ job[w].temp # job[w].input

\* the temporary file is complete and the final rename has not succeeded
StepsAfterTemp ==
    {"set_file_times", "rename_backup", "remove_file", "rename", "set_permissions"}
TempWrittenNotRenamed(w) ==
    \/ pc[w] \in {"cf_keep_date", "cf_swap", "cf_rename", "pf_perms", "pf_rename"}
    \/ Returned(w) /\ ~ret[w].ok /\ ret[w].kind \in StepsAfterTemp

BackupPath(w) ==
    IF job[w].entry = "process_file" THEN Tilde(job[w].input)
    ELSE with_extension(job[w].input, "bak")

\* C2: overwriting in place, from the moment the temporary file is written
\* until the final rename has succeeded (a failed step included), the original
\* path exists and holds the original bytes; the original path never holds
\* anything but the original or the converted content.
C2_OriginalIntactUntilRename ==
    \A w \in Workers :
        (Overwrites(w) /\ TempApart(w)) =>
            /\ TempWrittenNotRenamed(w) => HoldsOriginal(w, job[w].input)
            /\ Exists(fs, job[w].input) =>
                  (fs[job[w].input] = job[w].orig \/ Succeeded(w))

\* C3: once a conversion has returned, on whatever path, its temporary file
\* is gone: renamed onto the final path or removed.
C3_NoTempLeftBehind ==
    \A w \in Workers :
        (Returned(w) /\ job[w].temp # NoPath /\ job[w].temp # job[w].output)
            => ~Exists(fs, job[w].temp)

\* C4: with a backup requested the original is copied, not moved: the
\* original path keeps its bytes until the final rename, the backup path holds
\* them after a successful conversion, and a failed backup returns an error
\* with the original unmodified.
C4_BackupIsACopy ==
    \A w \in Workers :
        (job[w].entry # "none" /\ job[w].opts.backup
            /\ (job[w].temp = NoPath \/ TempApart(w))) =>
            /\ (Overwrites(w) /\ ~Succeeded(w)) => HoldsOriginal(w, job[w].input)
            /\ Succeeded(w) => HoldsOriginal(w, BackupPath(w))
            /\ (Returned(w) /\ ret[w].kind \in {"copy_backup", "rename_backup"})
                  => (~ret[w].ok /\ HoldsOriginal(w, job[w].input))

\* the content the binary gate is about: the file's bytes after a UTF-8 BOM
GateBody(w) == IF HasBom(job[w].orig) THEN Drop(job[w].orig, 3) ELSE job[w].orig
HasMarker(bytes) == \E i \in 1..Len(bytes) : IsControlMarker(bytes[i])
FirstMarker(bytes) ==
    bytes[CHOOSE i \in 1..Len(bytes) :
              /\ IsControlMarker(bytes[i])
              /\ \A k \in 1..(i - 1) : ~IsControlMarker(bytes[k])]
\* a marker the gate must see: anywhere in the content, or, when the file is
\* streamed, in the first chunk whatever the buffer size (the first byte)
MarkerInScope(w) ==
    /\ job[w].entry # "none"
    /\ HasMarker(GateBody(w))
    /\ job[w].large => IsControlMarker(GateBody(w)[1])

\* C5: a file whose content holds a control marker: without force the
\* conversion ends with BinaryDetected naming the first marker and the file
\* system is as it was; with force the conversion is not stopped by the gate.
\* (A conversion that could not open or read the file is not concerned.)
C5_BinaryGate ==
    \A w \in Workers :
        (Returned(w) /\ MarkerInScope(w) /\ ret[w].kind \notin {"open", "read"}) =>
            IF ~job[w].opts.force
            THEN /\ ~ret[w].ok /\ ret[w].kind = "BinaryDetected"
                 /\ ret[w].byte = FirstMarker(GateBody(w))
                 /\ fs = job[w].fs0
            ELSE /\ ret[w].kind \notin {"BinaryDetected", "SkippedBinary"}
                 /\ ret[w].ok => Succeeded(w)

\* what the conversion of a file wrote: the bytes its output path holds
Output(w) == fs[job[w].output]
\* the content of the original file after its UTF-8 BOM
PostBom(w) == Drop(job[w].orig, 3)
\* one call of the entry point's conversion on a whole buffer without a BOM
WholeConversion(w, body) ==
    IF job[w].entry = "convert_file" THEN convert_fn(job[w].fn, body)
    ELSE convert_line_endings(body, FALSE, job[w].opts.force,
                              job[w].opts.conversion_mode, job[w].opts.add_eol).out
BomKept(w) == job[w].opts.keep_bom /\ ~job[w].opts.remove_bom

\* C11: a file that begins with EF BB BF (sniffed, no explicit encoding),
\* converted in one buffer: with
\* keep_bom set and remove_bom unset the output is those 3 bytes and then the
\* converted content; with remove_bom set, or keep_bom unset, the output is
\* the converted content alone, remove_bom winning when both are set.
C11_BomPolicy ==
    \A w \in Workers :
        (Succeeded(w) /\ ~job[w].large /\ HasBom(job[w].orig)
            /\ job[w].opts.from_encoding = "auto") =>
            Output(w) = (IF BomKept(w) THEN Utf8Bom ELSE <<>>)
                            \o WholeConversion(w, PostBom(w))

\* process_file was given Some(output_path), another path than the input's
WritesNewFile(w) ==
    job[w].entry = "process_file" /\ job[w].output # job[w].input

\* C16: writing a new file, the input file holds its original bytes when
\* the call has returned, with Ok or with Err, whatever the two paths are.
C16_NewFileLeavesOriginal ==
    \A w \in Workers :
        (WritesNewFile(w) /\ Returned(w)) => HoldsOriginal(w, job[w].input)

\* the conversion has not reached its backup/commit step: it stands at a
\* step up to it, or it returned from one with an error
StepsBeforeCommit ==
    {"cf_open", "cf_read", "cf_create", "cf_write", "cf_keep_date", "cf_swap",
     "lf_detect", "lf_create", "lf_bom", "lf_loop",
     "pf_read", "pf_backup", "pf_metadata", "pf_write", "pf_perms", "pf_rename"}
ErrorsBeforeCommit ==
    {"open", "read", "EmptySource", "BinaryDetected", "copy_backup", "metadata",
     "create", "write", "set_file_times", "set_permissions"}
BeforeCommit(w) ==
    \/ pc[w] \in StepsBeforeCommit
    \/ Returned(w) /\ ~ret[w].ok /\ ret[w].kind \in ErrorsBeforeCommit

\* C18: whatever the input path's extension, the temporary path derived for
\* a conversion is another path than the input's, and in every state before
\* the backup/commit step the input path holds the original bytes.
C18_TempWriteSparesOriginal ==
    \A w \in Workers :
        (job[w].entry # "none" /\ BeforeCommit(w)) =>
            /\ job[w].temp # job[w].input
            /\ HoldsOriginal(w, job[w].input)

\* the conversion found a BOM and was told to keep it: main.rs 242 and 293
\* (bom_size > 0 only when the encoding is sniffed), lib.rs 74-75
KeepsBom(w) ==
    /\ HasBom(job[w].orig)
    /\ job[w].opts.keep_bom
    /\ job[w].entry = "convert_file" =>
          (~job[w].opts.remove_bom /\ job[w].opts.from_encoding = "auto")

\* C19: a kept BOM is written once, first, in one buffer and streamed alike:
\* the output begins with EF BB BF, no second BOM follows it, and what
\* follows holds the bytes of the content after the BOM that are not line
\* terminators, each once and in order (none in the BOM's place, none twice).
C19_BomOnceAtStart ==
    \A w \in Workers :
        (Succeeded(w) /\ KeepsBom(w)) =>
            /\ StartsWith(Output(w), Utf8Bom)
            /\ ~HasBom(Drop(Output(w), 3))
            /\ NonEol(Drop(Output(w), 3)) = NonEol(PostBom(w))

\* ======================================================================
\* Properties of the detector (specification SpecDetect)
\* ======================================================================
Detected == dStage = "detected"
Detection(encoding, bom_size) ==
    [ok |-> TRUE, encoding |-> encoding, bom_size |-> bom_size]
\* the encoding a --from-encoding name stands for (test_get_encoding)
NamedEncoding(name) ==
    CASE name = "utf8" -> "UTF_8"
      [] name = "utf16le" -> "UTF_16LE"
      [] name = "utf16be" -> "UTF_16BE"
      [] name = "iso-8859-1" -> "WINDOWS_1252"
      [] OTHER -> "UTF_8"

\* C13: with no explicit encoding a non-empty source gives (UTF-8, 3) when it
\* starts with EF BB BF, else (UTF-16LE, 2) when it starts with FF FE, else
\* (UTF-16BE, 2) when it starts with FE FF, else (UTF-8, 0); an explicit
\* encoding is returned with bom_length 0 whatever the source starts with.
C13_DetectionTable ==
    Detected =>
        IF dEncoding # "auto"
        THEN dRes = Detection(NamedEncoding(dEncoding), 0)
        ELSE dSource # <<>> =>
                dRes = CASE StartsWith(dSource, Utf8Bom) -> Detection("UTF_8", 3)
                         [] StartsWith(dSource, <<255, 254>>) -> Detection("UTF_16LE", 2)
                         [] StartsWith(dSource, <<254, 255>>) -> Detection("UTF_16BE", 2)
                         [] OTHER -> Detection("UTF_8", 0)

C13_Witness ==
    /\ Detected /\ dEncoding = "auto"
    /\ dSource = <<255, 254, LetterA, NUL>>
    /\ dRes = Detection("UTF_16LE", 2)

\* C14: the detector fails (EmptySource) exactly when the source has no
\* bytes and no explicit encoding is given.
C14_EmptySourceExactly ==
    Detected => (~dRes.ok <=> (dSource = <<>> /\ dEncoding = "auto"))

C14_Witness ==
    /\ Detected /\ dEncoding = "auto" /\ dSource = <<>>
    /\ ~dRes.ok

\* ======================================================================
\* Properties of a run over a list of inputs (specification SpecBatch)
\* ======================================================================
RunOver == bProc \in {"exited", "panicked"}
\* the files of the batch: the inputs that are not directories, and the
\* entries of the directories that are walked; unix2dos.rs hands every input
\* to process_file
BatchFiles ==
    {InputPath(i) : i \in {i \in 1..Len(bInputs) :
                              bEntry = "unix2dos" \/ bInputs[i].kind # "dir"}}
        \cup {EntryPath(e[1], e[2]) :
                e \in {e \in (1..Len(bInputs)) \X (1..2) :
                          /\ bEntry = "dos2unix" /\ bOpts.recursive
                          /\ bInputs[e[1]].kind = "dir"
                          /\ e[2] <= Len(bInputs[e[1]].entries)}}
Attempted(path) == \E i \in 1..Len(bLog) : bLog[i].path = path

\* C15: when the run is over, however the conversion of any of its files
\* ended, every file of the batch has been attempted (top-level inputs and
\* entries of a walked directory alike).
C15_EveryFileAttempted ==
    RunOver => \A path \in BatchFiles : Attempted(path)

\* ======================================================================
\* Properties of two conversions side by side (specification SpecPar)
\* ======================================================================
\* the conversion of the worker's own original content
OwnConversion(w) ==
    convert_line_endings(job[w].orig, job[w].opts.keep_bom, job[w].opts.force,
                         job[w].opts.conversion_mode, job[w].opts.add_eol).out
\* C17: two conversions of two distinct files, their steps interleaved in any
\* order: a file whose conversion succeeded holds the conversion of its own
\* original content, and its backup, when one was asked for, holds its own
\* original.
C17_ParallelIndependent ==
    \A w \in ParWorkers :
        Succeeded(w) =>
            /\ Exists(fs, job[w].input)
            /\ fs[job[w].input] = OwnConversion(w)
            /\ job[w].opts.backup => HoldsOriginal(w, Tilde(job[w].input))

\* ======================================================================
\* Properties of the line-ending count (specification SpecCount)
\* ======================================================================
Counted == rStage = "counted"
Occurrences(s, b) == Cardinality({i \in 1..Len(s) : s[i] = b})
CRLFPairs(s) == Cardinality({i \in 1..Len(s) : s[i] = CR /\ FollowedByLF(s, i)})
BareLFs(s) == Cardinality({i \in 1..Len(s) : s[i] = LF /\ ~PrecededByCR(s, i)})
BareCRs(s) == Cardinality({i \in 1..Len(s) : s[i] = CR /\ ~FollowedByLF(s, i)})

\* C23: count_line_endings returns (dos, unix, mac): dos the number of CR LF
\* pairs of the input, unix the number of LF bytes no CR precedes, mac the
\* number of CR bytes no LF follows (a CR ending the input included); each
\* CR and each LF is in exactly one of the counts (a pair being one ending
\* of two bytes).
C23_CountLineEndings ==
    Counted =>
        /\ dos_count = CRLFPairs(reader)
        /\ unix_count = BareLFs(reader)
        /\ mac_count = BareCRs(reader)
        /\ 2 * dos_count + unix_count + mac_count
              = Occurrences(reader, CR) + Occurrences(reader, LF)

C23_Witness ==
    /\ Counted
    /\ reader = <<CR, LF, LF, CR>>
    /\ dos_count = 1 /\ unix_count = 1 /\ mac_count = 1

=============================================================================
